---- MODULE Spec2Model ----
(***************************************************************************)
(* Model of the recording-session orchestrator of src/app/page.tsx (the    *)
(* Home component): the React state and refs, the startRecording           *)
(* coroutine with its two suspension points, the encoder callbacks, and    *)
(* the button handlers together with the conditions under which the        *)
(* buttons are rendered.  Every invocation of startRecording is a          *)
(* "session" with its own captures, audio graph and encoder, because these *)
(* are locals of that invocation; the chunk buffer, the encoder reference  *)
(* and the React state are shared by all invocations.                      *)
(***************************************************************************)
EXTENDS Integers, Sequences, FiniteSets, TLC

\* ---------------------------------------------------------------- bounds
MaxSessions == 3    \* startRecording invocations in one behaviour
MaxEmit == 1        \* timeslice data-available events in one behaviour
MaxSegLen == 1      \* bytes in one emitted segment
MaxStopCalls == 2   \* counted stop() invocations on one encoder
MaxParallel == 2    \* startRecording invocations unfinished at one time
MaxFailures == 1    \* startRecording invocations that throw
MaxEnded == 1       \* screen shares the user ends

Sessions == 1..MaxSessions

VARIABLES
  isRecording,      \* useState(false), line 6
  recordedBlob,     \* useState<Blob | null>(null), line 7
  error,            \* useState(''), line 8: the parts of the text, <<>> for ''
  status,           \* useState('Ready to record'), line 9
  previewUrl,       \* useState<string | null>(null), line 10: 0 for null
  mediaRecorderRef, \* useRef<MediaRecorder | null>(null), line 12: 0 for null
  recordedChunks,   \* useRef<Blob[]>([]), line 13
  pc,               \* position of each startRecording invocation
  closure,          \* isRecording as captured by the invocation's closures
  display,          \* screenStream of the invocation: none, live, ended
                    \* (by the user) or stopped (by track.stop())
  mic,              \* micStream of the invocation: none, live or stopped
  graph,            \* audioContext of the invocation: none / open / closed
  enc,              \* MediaRecorder of the invocation
  nEmit,            \* segments the encoder has emitted so far
  emitted,          \* history: the segments each encoder emitted, in order
  releaseCount,     \* history: runs of the clean-up of lines 98-101
  stopCalls,        \* history: stop() invocations received by each encoder
  liveUrls,         \* object URLs created by the preview effect, not revoked
  nextId,           \* next invocation of startRecording
  afterReset,       \* history: invocation began after a resetRecording
  resetDone,        \* history: resetRecording has run with a blob present
  env,              \* history: the environment each invocation ran in
  lastOp            \* history: the handler that ran last

vars == <<isRecording, recordedBlob, error, status, previewUrl,
          mediaRecorderRef, recordedChunks, pc, closure, display, mic, graph,
          enc, nEmit, emitted, releaseCount, stopCalls, liveUrls, nextId,
          afterReset, resetDone, env, lastOp>>

\* ------------------------------------------------------------- constants
StatusReady == "Ready to record"
StatusChecking == "Checking compatibility..."
StatusRequesting == "Requesting permissions..."
StatusRecording == "Recording in progress..."
StatusCompleted == "Recording completed"

MsgUnsupported == "Screen recording is not supported in this browser. Please use Chrome, Edge, or Firefox."
MsgInsecure == "Screen recording requires HTTPS or localhost. Please access this page over HTTPS."

\* messages of the rejections of getDisplayMedia / getUserMedia
AcquireErrors == {"Permission denied"}

\* the value thrown at a point of the synchronous tail of startRecording
SetupError(point) == [isError |-> TRUE, message |-> point \o " failed"]

NullBlob == [id |-> 0, type |-> "", bytes |-> <<>>]
NoOp == [name |-> "init", sid |-> 0, msg |-> "", from |-> ""]

\* -------------------------------------------------------- pure functions
Min(a, b) == IF a < b THEN a ELSE b

\* the k-th segment of encoder s, of the given size: its bytes carry s and k
Segment(s, k, size) == [i \in 1..size |-> 10 * s + k]

\* a new Blob(parts) that takes the parts last to first
RECURSIVE ConcatReversed(_)
ConcatReversed(parts) ==
  IF parts = <<>> THEN <<>> ELSE ConcatReversed(Tail(parts)) \o Head(parts)

\* new Blob(parts): the bytes of the parts, in order
RECURSIVE Concat(_)
Concat(parts) ==
  IF parts = <<>> THEN <<>> ELSE Head(parts) \o Concat(Tail(parts))

\* the template literal of line 117
ErrorText(err) ==
  <<"Failed to start recording: ",
    IF err.isError THEN err.message ELSE "Unknown error">>

\* ondataavailable, lines 85-89
PushChunk(chunks, data) ==
  IF Len(data) > 0 THEN Append(chunks, data) ELSE chunks

\* line 123 without its isRecording conjunct
StopGuardRefOnly(c) == mediaRecorderRef # 0

\* the condition of line 123, c being the isRecording of the closure
StopGuard(c) == mediaRecorderRef # 0 /\ c

\* rendering conditions of the buttons, lines 220, 230, 240
StartVisible == ~isRecording /\ recordedBlob = NullBlob
StopVisible == isRecording
ResultVisible == recordedBlob # NullBlob

\* the session state the component shows, from its state variables
SessionState ==
  IF isRecording THEN "Recording"
  ELSE IF recordedBlob # NullBlob THEN "Completed"
  ELSE IF error # <<>> THEN "Errored"
  ELSE IF status = StatusChecking THEN "CheckingCompatibility"
  ELSE IF status = StatusRequesting THEN "RequestingPermissions"
  ELSE IF status = StatusReady THEN "Idle"
  ELSE "Finalizing"

\* the record of a handler run: the session it belongs to, and for stop()
\* and the track-ended event the session state it ran in
Op(name, s, msg) ==
  [name |-> name, sid |-> s, msg |-> msg,
   from |-> IF name \in {"stop", "ended"} THEN SessionState ELSE ""]

\* ------------------------------------------------------------------ Init
Init ==
  /\ isRecording = FALSE
  /\ recordedBlob = NullBlob
  /\ error = <<>>
  /\ status = StatusReady
  /\ previewUrl = 0
  /\ mediaRecorderRef = 0
  /\ recordedChunks = <<>>
  /\ pc = [s \in Sessions |-> "notStarted"]
  /\ closure = [s \in Sessions |-> FALSE]
  /\ display = [s \in Sessions |-> "none"]
  /\ mic = [s \in Sessions |-> "none"]
  /\ graph = [s \in Sessions |-> "none"]
  /\ enc = [s \in Sessions |-> "none"]
  /\ nEmit = [s \in Sessions |-> 0]
  /\ emitted = [s \in Sessions |-> <<>>]
  /\ releaseCount = [s \in Sessions |-> 0]
  /\ stopCalls = [s \in Sessions |-> 0]
  /\ liveUrls = {}
  /\ nextId = 1
  /\ afterReset = [s \in Sessions |-> FALSE]
  /\ resetDone = FALSE
  /\ env = [s \in Sessions |-> [api |-> TRUE, secure |-> TRUE]]
  /\ lastOp = NoOp

\* --------------------------------------------------------------- actions
\* the invocation is suspended at an await or its encoder is still running
InProgress(s) ==
  \/ pc[s] \in {"awaitDisplay", "awaitMic"}
  \/ enc[s] \in {"recording", "flushing", "finalizing"}

\* the invocations that have thrown so far
Failed == {s \in Sessions : pc[s] \in {"errCheck", "errDisplay", "errMic", "errSetup"}}
CanFail == Cardinality(Failed) < MaxFailures

\* timeslice segments emitted so far, by all encoders
Timeslices(s) ==
  IF enc[s] \in {"finalizing", "finished"} THEN nEmit[s] - 1 ELSE nEmit[s]
RECURSIVE SumTimeslices(_)
SumTimeslices(n) == IF n = 0 THEN 0 ELSE Timeslices(n) + SumTimeslices(n - 1)

\* a track.stop() that leaves the track as it is
StopTrackSkipped(st) == st

\* track.stop() of lines 99-100 on a track in state st
StopTrack(st) == IF st = "live" THEN "stopped" ELSE st

\* the catch block, lines 115-119
Catch(err) ==
  /\ error' = ErrorText(err)
  /\ status' = StatusReady

\* the capability check without its secure-context test
CapabilityErrorApiOnly(apiPresent, secure) ==
  IF ~apiPresent THEN MsgUnsupported ELSE ""

\* the capability check, lines 21-29: the message thrown, "" when it passes
CapabilityError(apiPresent, secure) ==
  IF ~apiPresent THEN MsgUnsupported
  ELSE IF ~secure THEN MsgInsecure
  ELSE ""

\* click on Start Recording: lines 16-34, up to the first await
StartRecording(apiPresent, secure) ==
  /\ StartVisible
  /\ nextId <= MaxSessions
  /\ Cardinality({s \in Sessions : InProgress(s)}) < MaxParallel
  /\ (apiPresent /\ secure) \/ CanFail
  /\ LET s == nextId IN
       /\ nextId' = nextId + 1
       /\ closure' = [closure EXCEPT ![s] = isRecording]
       /\ afterReset' = [afterReset EXCEPT ![s] = resetDone]
       /\ env' = [env EXCEPT ![s] = [api |-> apiPresent, secure |-> secure]]
       /\ IF CapabilityError(apiPresent, secure) # ""
            THEN /\ Catch([isError |-> TRUE,
                           message |-> CapabilityError(apiPresent, secure)])
                 /\ pc' = [pc EXCEPT ![s] = "errCheck"]
                 /\ lastOp' = Op("catch", s, CapabilityError(apiPresent, secure))
            ELSE /\ error' = <<>>
                 /\ status' = StatusRequesting
                 /\ pc' = [pc EXCEPT ![s] = "awaitDisplay"]
                 /\ lastOp' = Op("start", s, "")
  /\ UNCHANGED <<isRecording, recordedBlob, previewUrl, mediaRecorderRef,
                 recordedChunks, display, mic, graph, enc, nEmit, emitted,
                 releaseCount, stopCalls, liveUrls, resetDone>>

\* getDisplayMedia resolves: lines 34-47, up to the second await
DisplayGranted(s) ==
  /\ pc[s] = "awaitDisplay"
  /\ display' = [display EXCEPT ![s] = "live"]
  /\ pc' = [pc EXCEPT ![s] = "awaitMic"]
  /\ lastOp' = Op("display", s, "")
  /\ UNCHANGED <<isRecording, recordedBlob, error, status, previewUrl,
                 mediaRecorderRef, recordedChunks, closure, mic, graph, enc,
                 nEmit, emitted, releaseCount, stopCalls, liveUrls, nextId,
                 afterReset, resetDone, env>>

\* getDisplayMedia rejects, with a catch block that also clears the encoder
\* reference
DisplayDeniedClearsRef(s, m) ==
  /\ pc[s] = "awaitDisplay"
  /\ CanFail
  /\ Catch([isError |-> TRUE, message |-> m])
  /\ pc' = [pc EXCEPT ![s] = "errDisplay"]
  /\ lastOp' = Op("catch", s, m)
  /\ mediaRecorderRef' = 0
  /\ UNCHANGED <<isRecording, recordedBlob, previewUrl,
                 recordedChunks, closure, display, mic, graph, enc, nEmit,
                 emitted, releaseCount, stopCalls, liveUrls, nextId,
                 afterReset, resetDone, env>>

\* getDisplayMedia rejects: line 34, then the catch block
DisplayDenied(s, m) ==
  /\ pc[s] = "awaitDisplay"
  /\ CanFail
  /\ Catch([isError |-> TRUE, message |-> m])
  /\ pc' = [pc EXCEPT ![s] = "errDisplay"]
  /\ lastOp' = Op("catch", s, m)
  /\ UNCHANGED <<isRecording, recordedBlob, previewUrl, mediaRecorderRef,
                 recordedChunks, closure, display, mic, graph, enc, nEmit,
                 emitted, releaseCount, stopCalls, liveUrls, nextId,
                 afterReset, resetDone, env>>

\* getUserMedia rejects: line 47, then the catch block
MicDenied(s, m) ==
  /\ pc[s] = "awaitMic"
  /\ CanFail
  /\ Catch([isError |-> TRUE, message |-> m])
  /\ pc' = [pc EXCEPT ![s] = "errMic"]
  /\ lastOp' = Op("catch", s, m)
  /\ UNCHANGED <<isRecording, recordedBlob, previewUrl, mediaRecorderRef,
                 recordedChunks, closure, display, mic, graph, enc, nEmit,
                 emitted, releaseCount, stopCalls, liveUrls, nextId,
                 afterReset, resetDone, env>>

\* points of the synchronous tail of startRecording at which it can throw
SetupPoints == {"mixer", "combiner", "encoder open", "encoder start"}

\* getUserMedia resolves: lines 47-113, the synchronous tail of startRecording;
\* failAt is the statement that throws, "none" when none does
MicGranted(s, failAt) ==
  /\ pc[s] = "awaitMic"
  /\ failAt = "none" \/ CanFail
  /\ mic' = [mic EXCEPT ![s] = "live"]
  \* line 56: new AudioContext()
  /\ graph' = [graph EXCEPT ![s] = IF failAt = "mixer" THEN "none" ELSE "open"]
  \* line 79: recordedChunks.current = []
  /\ recordedChunks' =
       IF failAt \in {"mixer", "combiner"} THEN recordedChunks ELSE <<>>
  \* lines 80-83: new MediaRecorder, mediaRecorderRef.current = mediaRecorder
  /\ mediaRecorderRef' =
       IF failAt \in {"mixer", "combiner", "encoder open"}
         THEN mediaRecorderRef ELSE s
  \* line 111: mediaRecorder.start(100)
  /\ enc' = [enc EXCEPT ![s] =
       IF failAt \in {"mixer", "combiner", "encoder open"} THEN "none"
       ELSE IF failAt = "encoder start" THEN "inactive" ELSE "recording"]
  /\ IF failAt = "none"
       THEN \* lines 112-113
            /\ isRecording' = TRUE
            /\ status' = StatusRecording
            /\ error' = error
            /\ pc' = [pc EXCEPT ![s] = "running"]
            /\ lastOp' = Op("recording", s, "")
       ELSE /\ Catch(SetupError(failAt))
            /\ isRecording' = isRecording
            /\ pc' = [pc EXCEPT ![s] = "errSetup"]
            /\ lastOp' = Op("catch", s, SetupError(failAt).message)
  /\ UNCHANGED <<recordedBlob, previewUrl, closure, display, nEmit, emitted,
                 releaseCount, stopCalls, liveUrls, nextId, afterReset,
                 resetDone, env>>

\* stopRecording of the render whose isRecording is c, lines 122-127.
\* stop() on an encoder that is not recording either throws
\* InvalidStateError, which skips line 125, or returns without effect,
\* depending on the browser.
StopRecordingBody(c, throws) ==
  IF StopGuard(c)
    THEN LET r == mediaRecorderRef IN
      /\ stopCalls' = [stopCalls EXCEPT ![r] = Min(@ + 1, MaxStopCalls)]
      /\ IF enc[r] = "recording"
           THEN /\ enc' = [enc EXCEPT ![r] = "flushing"]
                /\ isRecording' = FALSE
           ELSE /\ enc' = enc
                /\ isRecording' = IF throws THEN isRecording ELSE FALSE
    ELSE UNCHANGED <<stopCalls, enc, isRecording>>

\* stop(): stopRecording of the current render.  The Stop button is rendered
\* only while isRecording (StopVisible); a call in any other state is let
\* through to the guard of line 123, which rejects it.
StopRecording(throws) ==
  /\ StopRecordingBody(isRecording, throws)
  /\ lastOp' = Op("stop", mediaRecorderRef, "")
  /\ UNCHANGED <<recordedBlob, error, status, previewUrl, mediaRecorderRef,
                 recordedChunks, pc, closure, display, mic, graph, nEmit,
                 emitted, releaseCount, liveUrls, nextId, afterReset,
                 resetDone, env>>

\* the user ends the screen share: the video track fires ended, lines 104-109
TrackEnded(s, throws) ==
  /\ display[s] = "live"
  /\ Cardinality({x \in Sessions : display[x] = "ended"}) < MaxEnded
  /\ display' = [display EXCEPT ![s] = "ended"]
  /\ IF enc[s] # "none" /\ closure[s]
       THEN StopRecordingBody(closure[s], throws)
       ELSE UNCHANGED <<stopCalls, enc, isRecording>>
  /\ lastOp' = Op("ended", s, "")
  /\ UNCHANGED <<recordedBlob, error, status, previewUrl, mediaRecorderRef,
                 recordedChunks, pc, closure, mic, graph, nEmit, emitted,
                 releaseCount, liveUrls, nextId, afterReset, resetDone, env>>

\* the encoder emits a segment on its 100 ms interval: lines 85-89
DataAvailable(s, size) ==
  /\ enc[s] = "recording"
  /\ SumTimeslices(MaxSessions) < MaxEmit
  /\ LET data == Segment(s, nEmit[s] + 1, size) IN
       /\ recordedChunks' = PushChunk(recordedChunks, data)
       /\ emitted' = [emitted EXCEPT ![s] = Append(@, data)]
  /\ nEmit' = [nEmit EXCEPT ![s] = @ + 1]
  /\ lastOp' = Op("data", s, "")
  /\ UNCHANGED <<isRecording, recordedBlob, error, status, previewUrl,
                 mediaRecorderRef, pc, closure, display, mic, graph, enc,
                 releaseCount, stopCalls, liveUrls, nextId, afterReset,
                 resetDone, env>>

\* after stop() the encoder emits what it still buffers: lines 85-89
FinalFlush(s, size) ==
  /\ enc[s] = "flushing"
  /\ LET data == Segment(s, nEmit[s] + 1, size) IN
       /\ recordedChunks' = PushChunk(recordedChunks, data)
       /\ emitted' = [emitted EXCEPT ![s] = Append(@, data)]
  /\ nEmit' = [nEmit EXCEPT ![s] = @ + 1]
  /\ enc' = [enc EXCEPT ![s] = "finalizing"]
  /\ lastOp' = Op("flush", s, "")
  /\ UNCHANGED <<isRecording, recordedBlob, error, status, previewUrl,
                 mediaRecorderRef, pc, closure, display, mic, graph,
                 releaseCount, stopCalls, liveUrls, nextId, afterReset,
                 resetDone, env>>

\* the preview effect without the clean-up of line 155
UrlsAfterNoRevoke(old, new) ==
  liveUrls \cup (IF new # NullBlob THEN {new.id} ELSE {})

\* the preview effect and its clean-up, lines 150-157, run when recordedBlob
\* changes from old to new
UrlsAfter(old, new) ==
  (liveUrls \ (IF old # NullBlob THEN {old.id} ELSE {}))
    \cup (IF new # NullBlob THEN {new.id} ELSE {})

\* the encoder fires stop: lines 91-102
OnStop(s) ==
  /\ enc[s] = "finalizing"
  /\ enc' = [enc EXCEPT ![s] = "finished"]
  /\ LET blob == [id |-> s, type |-> "video/webm",
                  bytes |-> Concat(recordedChunks)] IN
       /\ recordedBlob' = blob
       /\ liveUrls' = UrlsAfter(recordedBlob, blob)
       /\ previewUrl' = blob.id
  /\ status' = StatusCompleted
  /\ display' = [display EXCEPT ![s] = StopTrack(@)]
  /\ mic' = [mic EXCEPT ![s] = StopTrack(@)]
  /\ graph' = [graph EXCEPT ![s] = "closed"]
  /\ releaseCount' = [releaseCount EXCEPT ![s] = @ + 1]
  /\ lastOp' = Op("onstop", s, "")
  /\ UNCHANGED <<isRecording, error, mediaRecorderRef, recordedChunks, pc,
                 closure, nEmit, emitted, stopCalls, nextId, afterReset,
                 resetDone, env>>

\* click on Download: lines 129-141; the URL it creates is revoked at once
DownloadRecording ==
  /\ ResultVisible
  /\ lastOp' = Op("download", recordedBlob.id, "")
  /\ UNCHANGED <<isRecording, recordedBlob, error, status, previewUrl,
                 mediaRecorderRef, recordedChunks, pc, closure, display, mic,
                 graph, enc, nEmit, emitted, releaseCount, stopCalls,
                 liveUrls, nextId, afterReset, resetDone, env>>

\* a resetRecording that also clears the recording flag
ResetRecordingClearsFlag ==
  /\ ResultVisible
  /\ recordedBlob' = NullBlob
  /\ previewUrl' = 0
  /\ status' = StatusReady
  /\ error' = <<>>
  /\ liveUrls' = UrlsAfter(recordedBlob, NullBlob)
  /\ resetDone' = TRUE
  /\ isRecording' = FALSE
  /\ lastOp' = Op("reset", recordedBlob.id, "")
  /\ UNCHANGED <<mediaRecorderRef, recordedChunks, pc, closure,
                 display, mic, graph, enc, nEmit, emitted, releaseCount,
                 stopCalls, nextId, afterReset, env>>

\* click on New Recording: lines 143-148, and the effect clean-up
ResetRecording ==
  /\ ResultVisible
  /\ recordedBlob' = NullBlob
  /\ previewUrl' = 0
  /\ status' = StatusReady
  /\ error' = <<>>
  /\ liveUrls' = UrlsAfter(recordedBlob, NullBlob)
  /\ resetDone' = TRUE
  /\ lastOp' = Op("reset", recordedBlob.id, "")
  /\ UNCHANGED <<isRecording, mediaRecorderRef, recordedChunks, pc, closure,
                 display, mic, graph, enc, nEmit, emitted, releaseCount,
                 stopCalls, nextId, afterReset, env>>

Next ==
  \/ \E a, c \in BOOLEAN : StartRecording(a, c)
  \/ \E s \in Sessions : DisplayGranted(s)
  \/ \E s \in Sessions, m \in AcquireErrors : DisplayDenied(s, m)
  \/ \E s \in Sessions, m \in AcquireErrors : MicDenied(s, m)
  \/ \E s \in Sessions, f \in SetupPoints \cup {"none"} : MicGranted(s, f)
  \/ \E t \in BOOLEAN : StopRecording(t)
  \/ \E s \in Sessions, t \in BOOLEAN : TrackEnded(s, t)
  \/ \E s \in Sessions, n \in 0..MaxSegLen : DataAvailable(s, n)
  \/ \E s \in Sessions, n \in 0..MaxSegLen : FinalFlush(s, n)
  \/ \E s \in Sessions : OnStop(s)
  \/ DownloadRecording
  \/ ResetRecording

Spec == Init /\ [][Next]_vars

\* stop() queues the encoder's last data-available event and its stop event:
\* the browser's event loop delivers both
FairSpec ==
  /\ Spec
  /\ \A s \in Sessions :
       /\ WF_vars(\E n \in 0..MaxSegLen : FinalFlush(s, n))
       /\ WF_vars(OnStop(s))

\* ---------------------------------------------------------------- claims
Range(f) == {f[i] : i \in DOMAIN f}
Errs == {"errCheck", "errDisplay", "errMic", "errSetup"}

\* the invocation has ended: it threw, or its encoder fired stop
Settled(s) == pc[s] \in Errs \/ enc[s] = "finished"
\* none of the invocation's resources is live
AllAbsent(s) == display[s] # "live" /\ mic[s] # "live" /\ graph[s] # "open"
\* the bytes of the non-empty segments of a sequence of segments, in order
NonEmpty(seg) == Len(seg) > 0
Emitted(s) == Concat(SelectSeq(emitted[s], NonEmpty))

\* C1: once microphone acquisition has failed after display acquisition
\* succeeded, the invocation's display capture has no live track.
C1_DisplayReleasedOnMicFailure ==
  \A s \in Sessions : pc[s] = "errMic" => display[s] # "live"

\* C2: when the display capture's video track ends while the session is
\* Recording on that capture's encoder, the handler acts as stop(): the
\* recording flag is cleared and the encoder is asked to finalize.  Stated
\* for the first invocation of startRecording, with no other one begun.
C2_TrackEndedStops ==
  (lastOp.name = "ended" /\ lastOp.from = "Recording"
     /\ mediaRecorderRef = lastOp.sid /\ nextId = 2)
  => (~isRecording /\ enc[lastOp.sid] # "recording")

\* C3: the release logic runs at most once per invocation, and exactly once
\* for every ended invocation that had acquired a resource.
C3_ReleaseExactlyOnce ==
  \A s \in Sessions :
    /\ releaseCount[s] <= 1
    /\ (Settled(s) /\ display[s] # "none") => releaseCount[s] = 1

\* C4: at most one encoder is able to append to the chunk buffer at any time.
C4_SingleSession ==
  Cardinality({s \in Sessions : enc[s] \in {"recording", "flushing"}}) <= 1

\* C5: an invocation that has ended, by a failure or by finalization, holds
\* no live capture and no open audio graph.
C5_SettledHoldsNothing ==
  \A s \in Sessions : Settled(s) => AllAbsent(s)

\* C6: right after the catch block has run the session is Errored: the
\* recording flag is false, no artifact is shown, and the error text is
\* non-empty and contains the message of the failure that was caught.
C6_FailureSettlesErrored ==
  lastOp.name = "catch" =>
    /\ SessionState = "Errored"
    /\ ~isRecording
    /\ error # <<>>
    /\ lastOp.msg \in Range(error)

\* C7: the artifact of an invocation that began after a reset holds only
\* bytes of segments that invocation's own encoder emitted.
C7_NoResidue ==
  (recordedBlob # NullBlob /\ afterReset[recordedBlob.id]) =>
    \A i \in 1..Len(recordedBlob.bytes) :
      recordedBlob.bytes[i] \div 10 = recordedBlob.id

\* C8: a stop() issued while the session is Idle or CheckingCompatibility
\* requests no finalization and changes neither the session state, the status
\* text, the error text, the chunk buffer nor the artifact.
C8_StopNoOp ==
  [][(lastOp'.name = "stop"
        /\ lastOp'.from \in {"Idle", "CheckingCompatibility"})
      => UNCHANGED <<isRecording, recordedBlob, error, status, previewUrl,
                     mediaRecorderRef, recordedChunks, enc, stopCalls>>]_vars

\* stop() has run in Idle with an encoder of an earlier session still
\* referenced
C8_Witness ==
  lastOp.name = "stop" /\ lastOp.from = "Idle" /\ mediaRecorderRef # 0

\* the state the stop handler of invocation s leaves: the artifact of s is
\* shown as completed and s holds no live capture and no open audio graph
CompletedBy(s) ==
  /\ recordedBlob # NullBlob
  /\ recordedBlob.id = s
  /\ recordedBlob.type = "video/webm"
  /\ status = StatusCompleted
  /\ AllAbsent(s)

C10_ArtifactIsConcatenation ==
  recordedBlob # NullBlob => recordedBlob.bytes = Emitted(recordedBlob.id)

\* C11: right after reset() the artifact is absent, the chunk buffer is
\* empty, the preview handle is absent, the error text is empty and the
\* session is Idle.  Stated for a reset with one invocation of
\* startRecording begun.
C11_ResetClearsAll ==
  (lastOp.name = "reset" /\ nextId = 2) =>
    /\ recordedBlob = NullBlob
    /\ recordedChunks = <<>>
    /\ previewUrl = 0
    /\ error = <<>>
    /\ SessionState = "Idle"

\* C12: the status text reads as recording exactly when the recording flag
\* is true and as completed exactly when an artifact is present, and the
\* error text is non-empty only in the Errored state.  Stated for the states
\* with one invocation of startRecording begun.
C12_ProjectionConsistent ==
  nextId = 2 =>
    /\ (status = StatusRecording) <=> isRecording
    /\ (status = StatusCompleted) <=> (recordedBlob # NullBlob)
    /\ error # <<>> => SessionState = "Errored"

\* C13: an artifact that is present is never replaced by another artifact:
\* it only changes by being discarded.
C13_ArtifactNotReplaced ==
  [][(recordedBlob # NullBlob /\ recordedBlob' # recordedBlob)
       => recordedBlob' = NullBlob]_vars

\* C14: an invocation of start() in an environment without the screen-capture
\* API or outside a secure context fails at the capability check: it never
\* reaches the display or the microphone request and holds no capture.
C14_CheckBeforePrompt ==
  \A s \in Sessions :
    (pc[s] # "notStarted" /\ (~env[s].api \/ ~env[s].secure)) =>
      /\ pc[s] = "errCheck"
      /\ display[s] = "none"
      /\ mic[s] = "none"

\* start() has failed in a context that has the API but is not secure
C14_Witness ==
  /\ lastOp.name = "catch"
  /\ pc[lastOp.sid] = "errCheck"
  /\ env[lastOp.sid].api
  /\ ~env[lastOp.sid].secure
  /\ lastOp.msg = MsgInsecure

\* C15: the recording flag is cleared, and a recording encoder is asked to
\* finalize, only by stop() or by the track-ended handler.
C15_OnlyStopEndsRecording ==
  [][((isRecording /\ ~isRecording')
        \/ \E s \in Sessions : enc[s] = "recording" /\ enc'[s] # "recording")
      => lastOp'.name \in {"stop", "ended"}]_vars

\* reset() has run while the session was Recording, which it still is
C15_Witness ==
  /\ lastOp.name = "reset"
  /\ isRecording
  /\ \E s \in Sessions : enc[s] = "recording"

\* C16: at most one object URL of the preview effect is unrevoked; it is the
\* URL of the present artifact, and the preview handle is that URL; with no
\* artifact there is neither an unrevoked URL nor a preview handle.
C16_OnePreviewHandle ==
  /\ Cardinality(liveUrls) <= 1
  /\ recordedBlob # NullBlob =>
       (liveUrls = {recordedBlob.id} /\ previewUrl = recordedBlob.id)
  /\ recordedBlob = NullBlob => (liveUrls = {} /\ previewUrl = 0)

\* a second artifact is shown, after the first one was reset
C16_Witness ==
  /\ resetDone
  /\ recordedBlob # NullBlob
  /\ recordedBlob.id > 1
  /\ liveUrls = {recordedBlob.id}

\* the lengths of the segments of a chunk buffer
Lengths(chunks) == [i \in DOMAIN chunks |-> Len(chunks[i])]

\* bytes cut into consecutive pieces of the given lengths
RECURSIVE Split(_, _)
Split(bytes, lens) ==
  IF lens = <<>> THEN <<>>
  ELSE <<SubSeq(bytes, 1, Head(lens))>>
         \o Split(SubSeq(bytes, Head(lens) + 1, Len(bytes)), Tail(lens))

\* C17: concatenating the chunk buffer and cutting the result at the
\* boundaries of its segments gives the chunk buffer back.
C17_AssemblyRoundTrip ==
  Split(Concat(recordedChunks), Lengths(recordedChunks)) = recordedChunks

\* the chunk buffer holds two segments
C17_Witness ==
  /\ Len(recordedChunks) >= 2
  /\ \A i \in DOMAIN recordedChunks : Len(recordedChunks[i]) > 0
  /\ recordedChunks[1] # recordedChunks[2]

\* C18: the artifact built by the stop handler of an invocation contains the
\* bytes of the segment its encoder emitted after stop() was requested.
C18_FinalFlushIncluded ==
  lastOp.name = "onstop" =>
    LET s == lastOp.sid
        final == emitted[s][Len(emitted[s])]
    IN  \A i \in DOMAIN final : final[i] \in Range(recordedBlob.bytes)

\* C19: the steps of a start() up to a failure of the capability check, of
\* the display acquisition or of the microphone acquisition change neither
\* the chunk buffer, the encoder reference, the artifact, the preview handle
\* nor the recording flag.
C19_EarlyFailureFrame ==
  [][(\/ lastOp'.name \in {"start", "display"}
      \/ /\ lastOp'.name = "catch"
         /\ pc'[lastOp'.sid] \in {"errCheck", "errDisplay", "errMic"})
     => UNCHANGED <<recordedChunks, mediaRecorderRef, recordedBlob,
                    previewUrl, isRecording>>]_vars

\* the microphone acquisition has failed with the encoder reference and the
\* chunk buffer of an earlier session in place
C19_Witness ==
  /\ lastOp.name = "catch"
  /\ pc[lastOp.sid] = "errMic"
  /\ mediaRecorderRef # 0
  /\ recordedChunks # <<>>
  /\ error # <<>>
====
